---- MODULE Spec2Model ----
(***************************************************************************)
(* Screen-time control of the week-calendar kiosk application:             *)
(*   utils/screentime_manager.py  ScreenTimeController (allowance, usage   *)
(*                                window, usage records)                   *)
(*   utils/screentime.py          ScreenTimeManager (session timer, lock)  *)
(*   widgets/screentime_dialog.py ScreenTimeQuickActionsDialog             *)
(*   main.py                      WeekCalendarApp (wiring of the above)    *)
(***************************************************************************)
EXTENDS Integers, Sequences, FiniteSets, TLC

(***************************************************************************)
(* Bounds of the model.                                                    *)
(***************************************************************************)
\* calendar days the clock runs through: day 0 .. MaxDay
MaxDay == 1
\* add-time and credit quick actions taken per run of the model
MaxQuickOps == 1
\* seconds the session timer counts per calendar day before the model stops it
MaxCounted == 62
\* times the settings are saved per run of the model
MaxSaves == 1

(***************************************************************************)
(* Values of the environment: dates, times of day, PINs.                   *)
(***************************************************************************)
Max0(x) == IF x > 0 THEN x ELSE 0
Min(a, b) == IF a <= b THEN a ELSE b

\* dict.get(key, default)
DictGet(d, k, default) == IF k \in DOMAIN d THEN d[k] ELSE default

\* date.isoformat(): day 0 of the model is Monday 2024-01-01
IsoDates == <<"2024-01-01", "2024-01-02", "2024-01-03", "2024-01-04">>
isoformat(day) == IsoDates[day + 1]
Days == 0 .. (MaxDay + 1)

\* date.weekday(): 0 is Monday
weekday(day) == day % 7
weekday_names == <<"monday", "tuesday", "wednesday", "thursday",
                   "friday", "saturday", "sunday">>

\* a time of day in seconds since midnight
HMS(h, m, s) == h * 3600 + m * 60 + s
\* datetime.strptime(text, "%H:%M").time(); the text "HH:MM" is the pair <<HH, MM>>
strptime(text) == HMS(text[1], text[2], 0)
\* the texts strptime accepts; on every other text it raises ValueError
ParsesTime(text) == Len(text) = 2 /\ text[1] \in 0..23 /\ text[2] \in 0..59

\* the times of day the model's clock visits
ClockPoints == {HMS(13, 59, 59), HMS(14, 0, 0), HMS(14, 1, 0), HMS(14, 1, 30),
                HMS(23, 59, 30)}
\* those of the full model: in and after the afternoon window
AppClockPoints == {HMS(14, 0, 0), HMS(14, 1, 30)}

EnteredPins == {"1234", "9999"}

(***************************************************************************)
(* settings.json documents.                                                *)
(***************************************************************************)
DefaultWindow == [start |-> <<0, 0>>, end |-> <<23, 59>>]
AfternoonWindow == [start |-> <<14, 0>>, end |-> <<14, 1>>]

NoTable == [k \in {} |-> 0]
MondayTable(v) == [k \in {"monday"} |-> v]

Settings(en, limit, rem, pin, amode, daily, wtable, umode, dwin, wwin) ==
    [screentime |->
        [enabled |-> en, limit_minutes |-> limit, reminders |-> rem,
         allowed_time_mode |-> amode, daily_allowed_minutes |-> daily,
         weekly_allowed_minutes |-> wtable, usage_times_mode |-> umode,
         daily_usage_times |-> dwin, weekly_usage_times |-> wwin],
     parental |-> [pin_code |-> pin]]

\* the documents the application runs under in the full model: on Monday the
\* usage window is the afternoon window, on the other days the default one
AppSettingsFiles ==
    { Settings(en, mins[1], <<1, 0>>, "1234", "daily", mins[2], NoTable,
               "weekly", DefaultWindow, MondayTable(AfternoonWindow)) :
        en \in BOOLEAN, mins \in {<<1, 2>>, <<2, 1>>} }

\* the documents the controller's queries are checked under
ControllerSettingsFiles ==
    { Settings(en, 1, <<>>, "1234", amode, daily, wtable, umode, dwin, wwin) :
        en \in BOOLEAN,
        amode \in {"daily", "weekly", "calendar", "monthly"},
        daily \in {0, 2},
        wtable \in {NoTable, MondayTable(0)},
        umode \in {"always", "weekly", "calendar", "daily"},
        dwin \in {DefaultWindow, AfternoonWindow},
        wwin \in {NoTable, MondayTable(AfternoonWindow)} }

\* the usage documents (screentime_data.json) a run starts from
NoData == [k \in {} |-> 0]
UsageRecord(used, credits) == [used_minutes |-> used, credits |-> credits]
InitialData ==
    {NoData} \cup
    { isoformat(0) :> UsageRecord(1, 1), isoformat(0) :> UsageRecord(3, 0) }
\* those the application starts from in the full model
AppInitialData == {NoData, isoformat(0) :> UsageRecord(1, 1)}

\* a file that is not there, and one that json.load (or the .get calls on what
\* it returned) raises on
MissingFile == [missing |-> TRUE]
UnparsableFile == [unparsable |-> TRUE]
Parses(file) == DOMAIN file \cap {"missing", "unparsable"} = {}

(***************************************************************************)
(* ScreenTimeController (utils/screentime_manager.py).  self is the        *)
(* controller object: the loaded settings and the field screentime_data.   *)
(***************************************************************************)
ControllerLoadSettings(settings) ==
    IF ~Parses(settings)
    THEN \* the except branch sets these three attributes and no other
         [enabled               |-> FALSE,
          allowed_time_mode     |-> "daily",
          daily_allowed_minutes |-> 30]
    ELSE
    LET st == DictGet(settings, "screentime", NoTable) IN
    [enabled                |-> DictGet(st, "enabled", FALSE),
     allowed_time_mode      |-> DictGet(st, "allowed_time_mode", "daily"),
     daily_allowed_minutes  |-> DictGet(st, "daily_allowed_minutes", 30),
     weekly_allowed_minutes |-> DictGet(st, "weekly_allowed_minutes", NoTable),
     usage_times_mode       |-> DictGet(st, "usage_times_mode", "always"),
     daily_usage_times      |-> DictGet(st, "daily_usage_times", DefaultWindow),
     weekly_usage_times     |-> DictGet(st, "weekly_usage_times", NoTable)]

\* load_screentime_data: the mapping in memory for a usage file
load_screentime_data(file) == IF Parses(file) THEN file ELSE NoData

\* ScreenTimeController.__init__: load_settings, then load_screentime_data
NewController(settings, data) ==
    [k \in DOMAIN ControllerLoadSettings(settings) \cup {"screentime_data"} |->
        IF k = "screentime_data" THEN load_screentime_data(data)
        ELSE ControllerLoadSettings(settings)[k]]

AllowedAlwaysDaily(self, target_date) == self.daily_allowed_minutes
get_allowed_minutes_for_day(self, target_date) ==
    IF self.allowed_time_mode = "daily" THEN self.daily_allowed_minutes
    ELSE IF self.allowed_time_mode = "weekly"
         THEN DictGet(self.weekly_allowed_minutes,
                      weekday_names[weekday(target_date) + 1], 30)
    ELSE IF self.allowed_time_mode = "calendar" THEN self.daily_allowed_minutes
    ELSE 30

get_used_minutes_for_day(self, target_date) ==
    DictGet(DictGet(self.screentime_data, isoformat(target_date), NoTable),
            "used_minutes", 0)

get_credits_for_day(self, target_date) ==
    DictGet(DictGet(self.screentime_data, isoformat(target_date), NoTable),
            "credits", 0)

RemainingWithoutCredits(self, target_date) ==
    Max0(get_allowed_minutes_for_day(self, target_date)
         - get_used_minutes_for_day(self, target_date))

get_remaining_minutes_for_day(self, target_date) ==
    Max0(get_allowed_minutes_for_day(self, target_date)
         + get_credits_for_day(self, target_date)
         - get_used_minutes_for_day(self, target_date))

\* the record of date_str after "if date_str not in self.screentime_data: ..."
RecordOrNew(data, date_str) == DictGet(data, date_str, UsageRecord(0, 0))

AddUsedTimeUnsigned(data, minutes, target_date) ==
    LET date_str == isoformat(target_date)
        rec == RecordOrNew(data, date_str)
    IN  (date_str :> [rec EXCEPT !.used_minutes =
                        @ + (IF minutes < 0 THEN 0 - minutes ELSE minutes)]) @@ data

\* add_used_time: the new screentime_data
add_used_time(data, minutes, target_date) ==
    LET date_str == isoformat(target_date)
        rec == RecordOrNew(data, date_str)
    IN  (date_str :> [rec EXCEPT !.used_minutes = @ + minutes]) @@ data

CreditReplaces(data, minutes, target_date) ==
    LET date_str == isoformat(target_date)
        rec == RecordOrNew(data, date_str)
    IN  (date_str :> [rec EXCEPT !.credits = minutes]) @@ data

\* credit_time_for_day: the new screentime_data
credit_time_for_day(data, minutes, target_date) ==
    LET date_str == isoformat(target_date)
        rec == RecordOrNew(data, date_str)
    IN  (date_str :> [rec EXCEPT !.credits = @ + minutes]) @@ data

SaveEmptyDocument(disk, data, written) == IF written THEN NoData ELSE disk
\* save_screentime_data: the file after the call.  The whole mapping is dumped
\* to the file; an exception of mkdir, open or the dump is caught and printed,
\* and the file is then as it was (written = FALSE)
save_screentime_data(disk, data, written) == IF written THEN data ELSE disk

\* the result pairs (is_allowed, reason_if_not)
Allowed == <<TRUE, "None">>
Denied(reason) == <<FALSE, reason>>
\* a call that does not return: the exception that leaves it
Exceptions == {"KeyError", "ValueError"}
Raised(exception) == <<FALSE, exception>>
Raises(result) == result[2] \in Exceptions

\* a time text "HH:MM" as it stands in the settings, from its pair <<HH, MM>>
TwoDigits(n) == IF n < 10 THEN "0" \o ToString(n) ELSE ToString(n)
TimeText(text) == TwoDigits(text[1]) \o ":" \o TwoDigits(text[2])
\* the reason is_within_usage_times gives outside the window `times`
UsageTimesReason(times) ==
    "Außerhalb der erlaubten Nutzungszeit (" \o TimeText(times.start)
        \o " - " \o TimeText(times.end) \o ")"

WithinWeeklyWindowIgnored(self, day, time) == Allowed

WithinWeeklyWindowEndExclusive(self, day, time) ==
    LET times == DictGet(self.weekly_usage_times,
                         weekday_names[weekday(day) + 1], DefaultWindow)
    IN  IF strptime(times.start) <= time /\ time < strptime(times.end)
        THEN Allowed
        ELSE Denied(UsageTimesReason(times))

\* the weekly branch of is_within_usage_times
WithinWeeklyWindow(self, day, time) ==
    LET times == DictGet(self.weekly_usage_times,
                         weekday_names[weekday(day) + 1], DefaultWindow)
    IN  IF "start" \notin DOMAIN times THEN Raised("KeyError")
        ELSE IF ~ParsesTime(times.start) THEN Raised("ValueError")
        ELSE IF "end" \notin DOMAIN times THEN Raised("KeyError")
        ELSE IF ~ParsesTime(times.end) THEN Raised("ValueError")
        ELSE IF strptime(times.start) <= time /\ time <= strptime(times.end)
             THEN Allowed
        ELSE Denied(UsageTimesReason(times))

\* is_within_usage_times(check_time), check_time being time `time` of day `day`
is_within_usage_times(self, day, time) ==
    IF ~self.enabled THEN Allowed
    ELSE IF self.usage_times_mode = "always" THEN Allowed
    ELSE IF self.usage_times_mode = "weekly" THEN WithinWeeklyWindow(self, day, time)
    ELSE IF self.usage_times_mode = "calendar" THEN Allowed
    ELSE Allowed

CanStartIgnoringRemaining(self, day, time) ==
    IF ~self.enabled THEN Allowed ELSE is_within_usage_times(self, day, time)

\* can_start_session() called at time `time` of day `day`
can_start_session(self, day, time) ==
    IF ~self.enabled THEN Allowed
    ELSE IF Raises(is_within_usage_times(self, day, time))
         THEN is_within_usage_times(self, day, time)
    ELSE IF ~is_within_usage_times(self, day, time)[1]
         THEN Denied(is_within_usage_times(self, day, time)[2])
    ELSE IF get_remaining_minutes_for_day(self, day) <= 0
         THEN Denied("used up")
    ELSE Allowed

(***************************************************************************)
(* ScreenTimeManager (utils/screentime.py).  self is the manager object;   *)
(* timer_active is self.timer.isActive().                                  *)
(***************************************************************************)
ManagerLoadSettingsEnabled(self, settings) ==
    [k \in DOMAIN self \cup {"enabled", "limit_minutes", "reminders",
                             "pin_code", "shown_reminders"} |->
        CASE k = "enabled" -> TRUE
          [] k = "limit_minutes" -> 60
          [] k = "reminders" -> <<30, 5>>
          [] k = "pin_code" -> "1234"
          [] k = "shown_reminders" -> {}
          [] OTHER -> self[k]]

ManagerLoadSettings(self, settings) ==
    LET st == DictGet(settings, "screentime", NoTable)
        loaded ==
            IF ~Parses(settings)
            THEN [enabled         |-> FALSE,
                  limit_minutes   |-> 60,
                  reminders       |-> <<30, 5>>,
                  pin_code        |-> "1234",
                  shown_reminders |-> {}]
            ELSE
            [enabled         |-> DictGet(st, "enabled", FALSE),
             limit_minutes   |-> DictGet(st, "limit_minutes", 60),
             reminders       |-> DictGet(st, "reminders", <<30, 5>>),
             pin_code        |-> DictGet(DictGet(settings, "parental", NoTable),
                                         "pin_code", "1234"),
             shown_reminders |-> {}]
    IN  [k \in DOMAIN self \cup DOMAIN loaded |->
            IF k \in DOMAIN loaded THEN loaded[k] ELSE self[k]]

\* ScreenTimeManager.__init__
NewManager(settings, data) ==
    ManagerLoadSettings(
        [controller      |-> NewController(settings, data),
         timer_active    |-> FALSE,
         elapsed_seconds |-> 0,
         is_paused       |-> FALSE,
         is_locked       |-> FALSE],
        settings)

StartUnchecked(self, day, time) ==
    IF ~self.enabled \/ self.is_locked THEN self
    ELSE [self EXCEPT
            !.limit_minutes =
                Min(@, get_remaining_minutes_for_day(self.controller, day)),
            !.elapsed_seconds = 0,
            !.shown_reminders = {},
            !.timer_active = TRUE]

StartKeepsLimit(self, day, time) ==
    IF ~can_start_session(self.controller, day, time)[1] THEN self
    ELSE IF ~self.enabled \/ self.is_locked THEN self
    ELSE [self EXCEPT
            !.elapsed_seconds = 0,
            !.shown_reminders = {},
            !.timer_active = TRUE]

\* start() called at time `time` of day `day`
start(self, day, time) ==
    IF ~can_start_session(self.controller, day, time)[1] THEN self
    ELSE IF ~self.enabled \/ self.is_locked THEN self
    ELSE [self EXCEPT
            !.limit_minutes =
                Min(@, get_remaining_minutes_for_day(self.controller, day)),
            !.elapsed_seconds = 0,
            !.shown_reminders = {},
            !.timer_active = TRUE]

StopLeavesTimerActive(self) == self
\* stop(): the definition in force, the second one of the class
stop(self) == [self EXCEPT !.timer_active = FALSE]

pause(self) == [self EXCEPT !.is_paused = TRUE]
resume(self) == [self EXCEPT !.is_paused = FALSE]

get_remaining_time(self) == Max0(self.limit_minutes * 60 - self.elapsed_seconds)

is_running(self) == self.timer_active /\ self.enabled

add_time(self, minutes) ==
    [self EXCEPT !.elapsed_seconds = Max0(@ - minutes * 60)]

\* LockDialog._check_pin: does the dialog accept?
CheckPinAcceptsAll(entered, pin) == TRUE
_check_pin(entered, pin) == entered = pin

ReminderHitsIgnoringShown(self, remaining_seconds) ==
    IF self.elapsed_seconds >= 5
    THEN { self.reminders[i] : i \in
            { j \in 1 .. Len(self.reminders) :
                self.reminders[j] = remaining_seconds \div 60 } }
    ELSE {}

\* the reminders the loop of _on_timer_tick may show on this tick: those of
\* self.reminders that equal remaining_minutes and are not in shown_reminders
\* (all hits have the same value, so the loop's first hit is that value)
ReminderHits(self, remaining_seconds) ==
    IF self.elapsed_seconds >= 5
    THEN { self.reminders[i] : i \in
            { j \in 1 .. Len(self.reminders) :
                /\ self.reminders[j] = remaining_seconds \div 60
                /\ self.reminders[j] \notin self.shown_reminders } }
    ELSE {}

(***************************************************************************)
(* State.                                                                  *)
(***************************************************************************)
VARIABLES
    settings,               \* config/settings.json
    disk_data,              \* config/screentime_data.json
    manager,                \* WeekCalendarApp.screentime_manager
    showing_timer,          \* nav_bar.showing_timer
    dialog,                 \* the modal dialog that is open: none, reminder, lock, quick
    tick_remaining_seconds, \* remaining_seconds of the tick handler the reminder suspends
    quick_actions_dialog,   \* the open ScreenTimeQuickActionsDialog's fields
    today,                  \* date.today(), as a day number
    now,                    \* datetime.now().time(), in seconds since midnight
    op,                     \* the operation of the last step
    entered,                \* the PIN typed in the last PIN check
    emitted,                \* the last step emitted time_updated
    settings_view,          \* WeekCalendarApp.settings_view, once it is built
    reminded,               \* the reminder values shown since the timer started
    counting,               \* the run keeps the day's tally `counted`
    counted,                \* seconds the session timer counted today
    added,                  \* minutes added today through the add-time quick action
    paused_at,              \* elapsed_seconds when the running pause began
    pause_added,            \* minutes the add-time quick action added in that pause
    resumed,                \* resume() ran and no tick was counted since
    quick_ops,              \* add-time and credit quick actions taken
    saves                   \* saves of the settings taken

vars == <<settings, disk_data, manager, showing_timer, dialog,
          tick_remaining_seconds, quick_actions_dialog, today, now, op, entered,
          emitted, counting, reminded, settings_view, counted, added, paused_at, pause_added, resumed,
          quick_ops, saves>>

NoDialog == [remaining_seconds |-> 0, total_seconds |-> 0, pin_code |-> ""]

\* no settings view yet: _show_settings_fullscreen builds it at the first opening
NoView == [exists |-> FALSE, authenticated |-> FALSE, ui_built |-> FALSE,
           shown |-> FALSE]

\* no reminder shown yet: the values shown since the timer was started, those
\* shown since shown_reminders was last emptied, and whether a value was shown
\* that had been shown before since the timer was started
NoReminders == [session |-> {}, since_clear |-> {}, again |-> FALSE]

controller == manager.controller
elapsed_seconds == manager.elapsed_seconds
limit_minutes == manager.limit_minutes
is_paused == manager.is_paused
is_locked == manager.is_locked
timer_active == manager.timer_active

(***************************************************************************)
(* WeekCalendarApp.__init__: the manager is built from the two files and   *)
(* start() is called.                                                      *)
(***************************************************************************)
Launched(files, datas, times) ==
    /\ settings \in files
    /\ disk_data \in datas
    /\ today = 0
    /\ now \in times
    /\ manager = start(NewManager(settings, disk_data), today, now)
    /\ showing_timer = FALSE
    /\ dialog = "none"
    /\ tick_remaining_seconds = 0
    /\ quick_actions_dialog = NoDialog
    /\ settings_view = NoView
    /\ reminded = NoReminders
    /\ op = "init"
    /\ entered = ""
    /\ emitted = FALSE
    /\ counted = 0
    /\ added = 0
    /\ paused_at = 0
    /\ pause_added = 0
    /\ resumed = FALSE
    /\ quick_ops = 0
    /\ saves = 0

Init ==
    /\ Launched(AppSettingsFiles, AppInitialData, AppClockPoints)
    /\ counting = FALSE

(***************************************************************************)
(* The session timer: _on_timer_tick, _show_reminder, _lock_screen.        *)
(***************************************************************************)
Ghosts(name, pin, emit) ==
    /\ op' = name
    /\ entered' = pin
    /\ emitted' = emit

\* _lock_screen up to dialog.exec_(): stop() emits timer_stopped, which
\* _on_screentime_stopped answers by resetting the navigation bar
LockScreen(self) ==
    /\ manager' = [stop(self) EXCEPT !.is_locked = TRUE]
    /\ showing_timer' = FALSE
    /\ dialog' = "lock"

\* the early return of _on_timer_tick
TickIgnoresPause(self) == self.is_locked
TickReturnsAtOnce(self) == self.is_paused \/ self.is_locked

\* a timer tick that returns at once: the manager is paused or locked
TickSkipped ==
    /\ timer_active
    /\ TickReturnsAtOnce(manager)
    /\ Ghosts("tick_skipped", "", FALSE)
    /\ UNCHANGED <<settings, disk_data, manager, showing_timer, dialog,
                   tick_remaining_seconds, quick_actions_dialog, today, now,
                   counting, reminded, settings_view, counted, added, paused_at, pause_added, resumed, quick_ops, saves>>

\* a timer tick that is counted; it ends in the reminder dialog, in the lock
\* dialog or by returning
Tick ==
    /\ timer_active
    /\ ~TickReturnsAtOnce(manager)
    /\ counting => counted < MaxCounted
    /\ LET ticked == [manager EXCEPT !.elapsed_seconds = @ + 1]
           remaining_seconds == ticked.limit_minutes * 60 - ticked.elapsed_seconds
           hits == ReminderHits(ticked, remaining_seconds)
           shown == IF manager.enabled THEN TRUE ELSE showing_timer
       IN  /\ IF hits # {}
              THEN /\ manager' = pause([ticked EXCEPT
                                    !.shown_reminders = @ \cup hits])
                   /\ tick_remaining_seconds' = remaining_seconds
                   /\ showing_timer' = shown
                   /\ dialog' = "reminder"
                   /\ paused_at' = ticked.elapsed_seconds
                   /\ reminded' =
                        [session     |-> reminded.session \cup hits,
                         since_clear |-> reminded.since_clear \cup hits,
                         again       |-> reminded.again
                                           \/ hits \cap reminded.session # {}]
              ELSE /\ IF remaining_seconds <= 0
                      THEN LockScreen(ticked)
                      ELSE /\ manager' = ticked
                           /\ showing_timer' = shown
                           /\ dialog' = dialog
                   /\ tick_remaining_seconds' = 0
                   /\ paused_at' = 0
                   /\ reminded' = reminded
    /\ counted' = IF counting THEN counted + 1 ELSE counted
    /\ resumed' = FALSE
    /\ pause_added' = 0
    /\ Ghosts("tick", "", TRUE)
    /\ UNCHANGED <<settings, disk_data, quick_actions_dialog, today, now,
                   counting, settings_view, added, quick_ops, saves>>

\* the reminder dialog is closed: _show_reminder resumes and the tick handler
\* goes on to its expiry check
ReminderClosed ==
    /\ dialog = "reminder"
    /\ IF tick_remaining_seconds <= 0
       THEN LockScreen(resume(manager))
       ELSE /\ manager' = resume(manager)
            /\ dialog' = "none"
            /\ showing_timer' = showing_timer
    /\ tick_remaining_seconds' = 0
    /\ resumed' = (tick_remaining_seconds > 0)
    /\ Ghosts("reminder_closed", "", FALSE)
    /\ UNCHANGED <<settings, disk_data, quick_actions_dialog, today, now, counting, reminded, settings_view, counted, added, paused_at, pause_added,
                   quick_ops, saves>>

\* a PIN is entered in the lock dialog: accepted, _lock_screen unlocks and
\* calls start(); refused, the dialog stays
EnterPin(pin) ==
    /\ dialog = "lock"
    /\ IF _check_pin(pin, manager.pin_code)
       THEN /\ manager' = start([manager EXCEPT !.is_locked = FALSE], today, now)
            /\ dialog' = "none"
            /\ resumed' = FALSE
            /\ reminded' =
                 IF start([manager EXCEPT !.is_locked = FALSE],
                          today, now).timer_active
                 THEN NoReminders ELSE reminded
            /\ Ghosts("unlock", pin, FALSE)
       ELSE /\ UNCHANGED <<manager, dialog, resumed, reminded>>
            /\ Ghosts("wrong_pin", pin, FALSE)
    /\ UNCHANGED <<settings, disk_data, showing_timer, tick_remaining_seconds,
                   quick_actions_dialog, today, now, counting, settings_view, counted, added, paused_at, pause_added,
                   quick_ops, saves>>

\* the lock dialog is dismissed without a PIN: _lock_screen calls itself
DismissLock ==
    /\ dialog = "lock"
    /\ LockScreen(manager)
    /\ Ghosts("lock_dismissed", "", FALSE)
    /\ UNCHANGED <<settings, disk_data, tick_remaining_seconds,
                   quick_actions_dialog, today, now, counting, reminded, settings_view, counted, added, paused_at, pause_added,
                   resumed, quick_ops, saves>>

(***************************************************************************)
(* The quick-actions dialog (main.py _show_screentime_quick_actions and    *)
(* the slots of ScreenTimeQuickActionsDialog).                             *)
(***************************************************************************)
\* the settings button shows the quick actions rather than the settings
QuickActionsShown == showing_timer /\ is_running(manager)

SetData(self, data) == [self EXCEPT !.controller.screentime_data = data]

\* the end of _show_screentime_quick_actions, after exec_() returned
AfterQuickActions(self) == IF is_running(self) THEN resume(self) ELSE self

\* _on_timer_cancelled: stop(), whose timer_stopped signal closes the dialog
\* and resets the navigation bar
TimerCancelled(self) ==
    /\ manager' = AfterQuickActions(stop(self))
    /\ showing_timer' = FALSE
    /\ dialog' = "none"
    /\ quick_actions_dialog' = NoDialog

\* the settings button is pressed while the timer is shown, and building the
\* dialog raises: main.py passes theme=, which the __init__ of the dialog
\* class does not take; the except clause prints and returns
ShowQuickActionsRaises ==
    /\ dialog = "none"
    /\ QuickActionsShown
    /\ ~settings_view.shown
    /\ manager' = pause(manager)
    /\ paused_at' = IF is_paused THEN paused_at ELSE elapsed_seconds
    /\ pause_added' = IF is_paused THEN pause_added ELSE 0
    /\ Ghosts("quick_actions_raised", "", FALSE)
    /\ UNCHANGED <<settings, disk_data, showing_timer, dialog,
                   tick_remaining_seconds, quick_actions_dialog, today, now,
                   counting, reminded, settings_view, counted, added, resumed, quick_ops, saves>>

\* the same with the dialog built and opened: the course that the slots
\* connected to time_added, timer_cancelled and credit_tomorrow are written for
ShowQuickActions ==
    /\ dialog = "none"
    /\ QuickActionsShown
    /\ ~settings_view.shown
    /\ manager' = pause(manager)
    /\ paused_at' = IF is_paused THEN paused_at ELSE elapsed_seconds
    /\ pause_added' = IF is_paused THEN pause_added ELSE 0
    /\ dialog' = "quick"
    /\ quick_actions_dialog' =
          [remaining_seconds |-> get_remaining_time(manager),
           total_seconds     |-> limit_minutes * 60,
           pin_code          |-> DictGet(DictGet(settings, "parental", NoTable),
                                         "pin_code", "1234")]
    /\ Ghosts("quick_actions", "", FALSE)
    /\ UNCHANGED <<settings, disk_data, showing_timer, tick_remaining_seconds,
                   today, now, counting, reminded, settings_view, counted, added, resumed, quick_ops, saves>>

\* the minutes of the three add-time buttons
AddTimeButtons == {5, 15, 30}

\* an add-time button: _add_time emits time_added, _on_time_added adds the
\* time to the session and takes it off today's used time; the dialog accepts
QuickAddTime(minutes) ==
    /\ dialog = "quick"
    /\ quick_ops < MaxQuickOps
    /\ LET data == add_used_time(controller.screentime_data, 0 - minutes, today)
       IN  /\ manager' = AfterQuickActions(SetData(add_time(manager, minutes), data))
           /\ disk_data' = save_screentime_data(disk_data, data, TRUE)
    /\ dialog' = "none"
    /\ quick_actions_dialog' = NoDialog
    /\ added' = added + minutes
    /\ pause_added' = minutes
    /\ quick_ops' = quick_ops + 1
    /\ resumed' = is_running(manager)
    /\ Ghosts("add_time", "", FALSE)
    /\ UNCHANGED <<settings, showing_timer, tick_remaining_seconds, today, now,
                   counting, reminded, settings_view, counted, paused_at, saves>>

\* "credit for tomorrow" (factor 1) and "double for tomorrow" (factor 2):
\* credit_tomorrow is emitted and the dialog stays open
QuickCreditTomorrow(factor) ==
    /\ dialog = "quick"
    /\ quick_ops < MaxQuickOps
    /\ LET minutes == (quick_actions_dialog.remaining_seconds \div 60) * factor
           data == credit_time_for_day(controller.screentime_data, minutes,
                                       today + 1)
       IN  /\ manager' = SetData(manager, data)
           /\ disk_data' = save_screentime_data(disk_data, data, TRUE)
    /\ quick_ops' = quick_ops + 1
    /\ Ghosts("credit_tomorrow", "", FALSE)
    /\ UNCHANGED <<settings, showing_timer, dialog, tick_remaining_seconds,
                   quick_actions_dialog, today, now, counting, reminded, settings_view, counted, added, paused_at, pause_added,
                   resumed, saves>>

\* "move the remaining time to tomorrow": credit_tomorrow, then timer_cancelled
QuickMoveRemaining ==
    /\ dialog = "quick"
    /\ quick_ops < MaxQuickOps
    /\ LET minutes == quick_actions_dialog.remaining_seconds \div 60
           data == credit_time_for_day(controller.screentime_data, minutes,
                                       today + 1)
       IN  /\ TimerCancelled(SetData(manager, data))
           /\ disk_data' = save_screentime_data(disk_data, data, TRUE)
    /\ quick_ops' = quick_ops + 1
    /\ Ghosts("move_remaining", "", FALSE)
    /\ UNCHANGED <<settings, tick_remaining_seconds, today, now, counting, reminded, settings_view, counted, added,
                   paused_at, pause_added, resumed, saves>>

\* "cancel the timer": the PIN dialog is accepted with `pin` typed
QuickCancelTimer(pin) ==
    /\ dialog = "quick"
    /\ IF pin = quick_actions_dialog.pin_code
       THEN /\ TimerCancelled(manager)
            /\ Ghosts("cancel_timer", pin, FALSE)
       ELSE /\ UNCHANGED <<manager, showing_timer, dialog, quick_actions_dialog>>
            /\ Ghosts("cancel_refused", pin, FALSE)
    /\ UNCHANGED <<settings, disk_data, tick_remaining_seconds, today, now,
                   counting, reminded, settings_view, counted, added, paused_at, pause_added, resumed, quick_ops, saves>>

\* the dialog is closed without an action
QuickClose ==
    /\ dialog = "quick"
    /\ manager' = AfterQuickActions(manager)
    /\ dialog' = "none"
    /\ quick_actions_dialog' = NoDialog
    /\ resumed' = is_running(manager)
    /\ Ghosts("quick_closed", "", FALSE)
    /\ UNCHANGED <<settings, disk_data, showing_timer, tick_remaining_seconds,
                   today, now, counting, reminded, settings_view, counted, added, paused_at, pause_added, quick_ops, saves>>

(***************************************************************************)
(* The settings view, leaving and relaunching the application, the clock.  *)
(***************************************************************************)
\* the settings are saved: _on_settings_changed reloads the manager's
\* settings; the controller keeps what it loaded when it was built
SettingsChanged(file) ==
    /\ dialog = "none"
    /\ ~QuickActionsShown
    /\ saves < MaxSaves
    /\ settings' = file
    /\ manager' = ManagerLoadSettings(manager, file)
    /\ saves' = saves + 1
    /\ reminded' = [reminded EXCEPT !.since_clear = {}]
    /\ Ghosts("settings_changed", "", FALSE)
    /\ UNCHANGED <<disk_data, showing_timer, dialog, tick_remaining_seconds,
                   quick_actions_dialog, today, now, counting, settings_view, counted, added, paused_at, pause_added,
                   resumed, quick_ops>>

\* the application is left with the back button (_on_back_clicked) and
\* launched again: WeekCalendarApp.__init__
Restart ==
    /\ dialog = "none"
    /\ manager' = start(NewManager(settings, disk_data), today, now)
    /\ showing_timer' = FALSE
    /\ paused_at' = 0
    /\ pause_added' = 0
    /\ resumed' = FALSE
    /\ settings_view' = NoView
    /\ reminded' = NoReminders
    /\ Ghosts("restart", "", FALSE)
    /\ UNCHANGED <<settings, disk_data, dialog, tick_remaining_seconds,
                   quick_actions_dialog, today, now, counting, counted, added,
                   quick_ops, saves>>

\* time passes within the day
AdvanceClock(points) ==
    /\ \E t \in points : t > now /\ now' = t
    /\ Ghosts("clock", "", FALSE)
    /\ UNCHANGED <<settings, disk_data, manager, showing_timer, dialog,
                   tick_remaining_seconds, quick_actions_dialog, today, counting, reminded, settings_view, counted,
                   added, paused_at, pause_added, resumed, quick_ops, saves>>

\* midnight passes
NextDay(points) ==
    /\ today < MaxDay
    /\ today' = today + 1
    /\ now' \in points
    /\ counted' = 0
    /\ added' = 0
    /\ Ghosts("next_day", "", FALSE)
    /\ UNCHANGED <<settings, disk_data, manager, showing_timer, dialog,
                   tick_remaining_seconds, quick_actions_dialog, counting, reminded, settings_view,
                   paused_at, pause_added, resumed, quick_ops, saves>>

Next ==
    \/ TickSkipped
    \/ Tick
    \/ ReminderClosed
    \/ \E pin \in EnteredPins : EnterPin(pin)
    \/ DismissLock
    \/ ShowQuickActionsRaises
    \/ ShowQuickActions
    \/ \E minutes \in AddTimeButtons : QuickAddTime(minutes)
    \/ \E factor \in {1, 2} : QuickCreditTomorrow(factor)
    \/ QuickMoveRemaining
    \/ \E pin \in EnteredPins : QuickCancelTimer(pin)
    \/ QuickClose
    \/ \E file \in AppSettingsFiles : SettingsChanged(file)
    \/ Restart
    \/ AdvanceClock(AppClockPoints)
    \/ NextDay(AppClockPoints)

Spec == Init /\ [][Next]_vars

(***************************************************************************)
(* The runs that keep the day's tally of counted seconds: one settings     *)
(* document (screen time enabled, limit 2 minutes, 1 minute allowed per    *)
(* day), no usage record, launched inside the usage window.                *)
(***************************************************************************)
TallySettingsFiles ==
    { Settings(TRUE, 2, <<1, 0>>, "1234", "daily", 1, NoTable, "weekly",
               DefaultWindow, MondayTable(AfternoonWindow)) }

InitTally ==
    /\ Launched(TallySettingsFiles, {NoData}, {HMS(14, 0, 0)})
    /\ counting = TRUE

\* the operations of one calendar day under one settings document
NextTally ==
    \/ Tick
    \/ ReminderClosed
    \/ \E pin \in EnteredPins : EnterPin(pin)
    \/ DismissLock
    \/ ShowQuickActions
    \/ \E minutes \in AddTimeButtons : QuickAddTime(minutes)
    \/ \E pin \in EnteredPins : QuickCancelTimer(pin)
    \/ QuickClose
    \/ Restart

SpecTally == InitTally /\ [][NextTally]_vars

(***************************************************************************)
(* The controller on its own: built from any of the settings documents and *)
(* usage documents, its two updates called with any minutes and date, its  *)
(* queries read at any time of any day.                                    *)
(***************************************************************************)
\* calls of add_used_time and credit_time_for_day per run of this model
MaxControllerCalls == 1

InitController ==
    /\ settings \in ControllerSettingsFiles
    /\ disk_data \in InitialData
    /\ today = 0
    /\ now \in ClockPoints
    /\ manager = NewManager(settings, disk_data)
    /\ showing_timer = FALSE
    /\ dialog = "none"
    /\ tick_remaining_seconds = 0
    /\ quick_actions_dialog = NoDialog
    /\ settings_view = NoView
    /\ reminded = NoReminders
    /\ op = "init"
    /\ entered = ""
    /\ emitted = FALSE
    /\ counting = FALSE
    /\ counted = 0
    /\ added = 0
    /\ paused_at = 0
    /\ pause_added = 0
    /\ resumed = FALSE
    /\ quick_ops = 0
    /\ saves = 0

ControllerUnchanged ==
    UNCHANGED <<settings, showing_timer, dialog, tick_remaining_seconds,
                quick_actions_dialog, today, now, counting, reminded, settings_view, counted, added,
                paused_at, pause_added, resumed, saves>>

AddUsedTime(minutes, day, written) ==
    /\ quick_ops < MaxControllerCalls
    /\ LET data == add_used_time(controller.screentime_data, minutes, day)
       IN  /\ manager' = SetData(manager, data)
           /\ disk_data' = save_screentime_data(disk_data, data, written)
    /\ quick_ops' = quick_ops + 1
    /\ Ghosts("add_used_time", "", FALSE)
    /\ ControllerUnchanged

CreditTimeForDay(minutes, day, written) ==
    /\ quick_ops < MaxControllerCalls
    /\ LET data == credit_time_for_day(controller.screentime_data, minutes, day)
       IN  /\ manager' = SetData(manager, data)
           /\ disk_data' = save_screentime_data(disk_data, data, written)
    /\ quick_ops' = quick_ops + 1
    /\ Ghosts("credit_time_for_day", "", FALSE)
    /\ ControllerUnchanged

\* the minutes credit_time_for_day is called with
CreditMinutes == {1, 2}

NextController ==
    \/ \E minutes \in {0 - 5, 2}, day \in Days, written \in BOOLEAN :
          AddUsedTime(minutes, day, written)
    \/ \E minutes \in CreditMinutes, day \in Days, written \in BOOLEAN :
          CreditTimeForDay(minutes, day, written)
    \/ AdvanceClock(ClockPoints)
    \/ NextDay(ClockPoints)

SpecController == InitController /\ [][NextController]_vars

(***************************************************************************)
(* Loading: the application is launched, and its settings are reloaded,    *)
(* with settings and usage files that are missing, unparsable or present.  *)
(***************************************************************************)
LoadSettingsFiles == {MissingFile, UnparsableFile} \cup AppSettingsFiles
LoadDataFiles == {MissingFile, UnparsableFile} \cup AppInitialData

InitLoad ==
    /\ Launched(LoadSettingsFiles, LoadDataFiles, AppClockPoints)
    /\ counting = FALSE

\* the two files change on disk between launches
FilesReplaced(file, data) ==
    /\ settings' = file
    /\ disk_data' = data
    /\ Ghosts("files_replaced", "", FALSE)
    /\ UNCHANGED <<manager, showing_timer, dialog, tick_remaining_seconds,
                   quick_actions_dialog, today, now, counting, reminded, settings_view, counted, added,
                   paused_at, pause_added, resumed, quick_ops, saves>>

NextLoad ==
    \/ \E file \in LoadSettingsFiles, data \in LoadDataFiles :
          FilesReplaced(file, data)
    \/ \E file \in LoadSettingsFiles : SettingsChanged(file)
    \/ Restart

SpecLoad == InitLoad /\ [][NextLoad]_vars

(***************************************************************************)
(* The controller built from settings files that parse as JSON and hold    *)
(* usage windows with a key missing or with a time that is not HH:MM.      *)
(***************************************************************************)
MalformedWindows ==
    { [start |-> <<14, 0>>],
      [end |-> <<14, 1>>],
      [start |-> <<25, 0>>, end |-> <<14, 1>>],
      [start |-> <<14, 0>>, end |-> <<7>>] }

MalformedSettingsFiles ==
    { Settings(en, 1, <<>>, "1234", "daily", 2, NoTable, umode, DefaultWindow,
               MondayTable(window)) :
        en \in BOOLEAN,
        umode \in {"always", "weekly"},
        window \in MalformedWindows \cup {AfternoonWindow} }

InitMalformed ==
    /\ settings \in MalformedSettingsFiles
    /\ disk_data \in InitialData
    /\ today = 0
    /\ now \in ClockPoints
    /\ manager = NewManager(settings, disk_data)
    /\ showing_timer = FALSE
    /\ dialog = "none"
    /\ tick_remaining_seconds = 0
    /\ quick_actions_dialog = NoDialog
    /\ settings_view = NoView
    /\ reminded = NoReminders
    /\ op = "init"
    /\ entered = ""
    /\ emitted = FALSE
    /\ counting = FALSE
    /\ counted = 0
    /\ added = 0
    /\ paused_at = 0
    /\ pause_added = 0
    /\ resumed = FALSE
    /\ quick_ops = 0
    /\ saves = 0

SpecMalformed == InitMalformed /\ [][NextController]_vars

(***************************************************************************)
(* The settings view (widgets/settings_dialog.py) as main.py opens it.     *)
(***************************************************************************)
pin_enabled(file) ==
    DictGet(DictGet(file, "parental", NoTable), "pin_enabled", FALSE)
\* the settings document with the PIN checkbox saved as b
WithPinEnabled(file, b) ==
    [file EXCEPT !.parental = [pin_code |-> @.pin_code, pin_enabled |-> b]]

SettingsViewFiles ==
    AppSettingsFiles \cup
    { WithPinEnabled(file, b) : file \in AppSettingsFiles, b \in BOOLEAN }

\* SettingsDialog.__init__: with pin_enabled, _show_pin_dialog builds a PIN
\* dialog and returns without executing it, so nothing calls _verify_pin and
\* _init_ui is not run; without pin_enabled the view is authenticated and
\* its controls are built
NewSettingsView(file) ==
    [exists        |-> TRUE,
     authenticated |-> ~pin_enabled(file),
     ui_built      |-> ~pin_enabled(file),
     shown         |-> FALSE]

InitSettings ==
    /\ Launched(SettingsViewFiles, AppInitialData, AppClockPoints)
    /\ counting = FALSE

\* the settings button, the quick actions not being due:
\* _show_settings_fullscreen builds the view if the application has none
\* yet, and shows it
OpenSettings ==
    /\ dialog = "none"
    /\ ~QuickActionsShown
    /\ ~settings_view.shown
    /\ settings_view' =
          [(IF settings_view.exists THEN settings_view
            ELSE NewSettingsView(settings)) EXCEPT !.shown = TRUE]
    /\ Ghosts("settings_opened", "", FALSE)
    /\ UNCHANGED <<settings, disk_data, manager, showing_timer, dialog,
                   tick_remaining_seconds, quick_actions_dialog, today, now,
                   counting, reminded, counted, added, paused_at, pause_added, resumed,
                   quick_ops, saves>>

\* _save_and_close with the PIN checkbox as b: the file is written,
\* settings_changed reloads the manager, close_requested leaves the view
SaveAndClose(b) ==
    /\ dialog = "none"
    /\ settings_view.shown
    /\ settings_view.ui_built
    /\ saves < MaxSaves
    /\ settings' = WithPinEnabled(settings, b)
    /\ manager' = ManagerLoadSettings(manager, WithPinEnabled(settings, b))
    /\ settings_view' = [settings_view EXCEPT !.shown = FALSE]
    /\ saves' = saves + 1
    /\ reminded' = [reminded EXCEPT !.since_clear = {}]
    /\ Ghosts("settings_saved", "", FALSE)
    /\ UNCHANGED <<disk_data, showing_timer, dialog, tick_remaining_seconds,
                   quick_actions_dialog, today, now, counting, counted, added,
                   paused_at, pause_added, resumed, quick_ops>>

\* cancel: close_requested leaves the view
CancelSettings ==
    /\ dialog = "none"
    /\ settings_view.shown
    /\ settings_view.ui_built
    /\ settings_view' = [settings_view EXCEPT !.shown = FALSE]
    /\ Ghosts("settings_closed", "", FALSE)
    /\ UNCHANGED <<settings, disk_data, manager, showing_timer, dialog,
                   tick_remaining_seconds, quick_actions_dialog, today, now,
                   counting, reminded, counted, added, paused_at, pause_added, resumed,
                   quick_ops, saves>>

NextSettings ==
    \/ OpenSettings
    \/ \E b \in BOOLEAN : SaveAndClose(b)
    \/ CancelSettings
    \/ Restart
    \/ AdvanceClock(AppClockPoints)

SpecSettings == InitSettings /\ [][NextSettings]_vars

(***************************************************************************)
(* The quick actions that credit tomorrow, in a session of two minutes on  *)
(* a day with three minutes remaining, the usage times not restricted.     *)
(***************************************************************************)
MoveSettingsFiles ==
    { Settings(TRUE, 2, <<1, 0>>, "1234", "daily", 3, NoTable, "always",
               DefaultWindow, NoTable) }

InitMove ==
    /\ Launched(MoveSettingsFiles, AppInitialData, {HMS(14, 0, 0)})
    /\ counting = FALSE

NextMove ==
    \/ Tick
    \/ TickSkipped
    \/ ReminderClosed
    \/ \E pin \in EnteredPins : EnterPin(pin)
    \/ DismissLock
    \/ ShowQuickActions
    \/ \E factor \in {1, 2} : QuickCreditTomorrow(factor)
    \/ QuickMoveRemaining
    \/ QuickClose
    \/ Restart

SpecMove == InitMove /\ [][NextMove]_vars

(***************************************************************************)
(* The reminders of a session of two minutes with the reminder values 1    *)
(* and 0, the add-time quick action and the settings view at hand.         *)
(***************************************************************************)
InitReminders ==
    /\ Launched(MoveSettingsFiles, {NoData}, {HMS(14, 0, 0)})
    /\ counting = FALSE

NextReminders ==
    \/ Tick
    \/ TickSkipped
    \/ ReminderClosed
    \/ \E pin \in EnteredPins : EnterPin(pin)
    \/ DismissLock
    \/ ShowQuickActions
    \/ \E minutes \in AddTimeButtons : QuickAddTime(minutes)
    \/ QuickClose
    \/ OpenSettings
    \/ \E b \in BOOLEAN : SaveAndClose(b)
    \/ CancelSettings
    \/ Restart

SpecReminders == InitReminders /\ [][NextReminders]_vars

(***************************************************************************)
(* Claims.                                                                 *)
(***************************************************************************)
\* the usage record of a date as the claims read it: 0 and 0 without a record
used(day) ==
    IF isoformat(day) \in DOMAIN controller.screentime_data
    THEN controller.screentime_data[isoformat(day)].used_minutes ELSE 0
credits(day) ==
    IF isoformat(day) \in DOMAIN controller.screentime_data
    THEN controller.screentime_data[isoformat(day)].credits ELSE 0

\* the usage window the controller's configuration holds for a time: the
\* weekday's entry of weekly_usage_times in the weekly mode (00:00 - 23:59
\* for a weekday without an entry), daily_usage_times in every other mode
ConfiguredWindow(day) ==
    IF controller.usage_times_mode = "weekly"
    THEN IF weekday_names[weekday(day) + 1] \in DOMAIN controller.weekly_usage_times
         THEN controller.weekly_usage_times[weekday_names[weekday(day) + 1]]
         ELSE [start |-> <<0, 0>>, end |-> <<23, 59>>]
    ELSE controller.daily_usage_times
OutsideWindow(window, time) ==
    \/ time < window.start[1] * 3600 + window.start[2] * 60
    \/ time > window.end[1] * 3600 + window.end[2] * 60

\* C1: for every date, the remaining minutes are
\* max(0, allowed + credits - used), credits and used being 0 for a date
\* without a usage record.
C1_RemainingFormula ==
    \A d \in Days :
        get_remaining_minutes_for_day(controller, d)
            = Max0(get_allowed_minutes_for_day(controller, d) + credits(d) - used(d))
\* a usage record with credits and used time has been written for a date
C1_Witness ==
    /\ op \in {"add_used_time", "credit_time_for_day"}
    /\ \E d \in Days :
        /\ credits(d) + used(d) # 0
        /\ get_remaining_minutes_for_day(controller, d)
             # get_allowed_minutes_for_day(controller, d)

\* C3 as stated: whenever the remaining minutes of today are <= 0,
\* can_start_session() denies, for every configuration of the controller.
C3_DeniedWithoutRemaining ==
    get_remaining_minutes_for_day(controller, today) <= 0
        => ~can_start_session(controller, today, now)[1]
\* C3 as amended: whenever screen time is enabled and the remaining minutes of
\* today are <= 0, can_start_session() denies with a reason; with screen time
\* disabled it allows whatever remains.
C3_DeniedWithoutRemainingWhenEnabled ==
    /\ (controller.enabled /\ Max0(get_allowed_minutes_for_day(controller, today)
                                   + credits(today) - used(today)) <= 0)
            => /\ ~can_start_session(controller, today, now)[1]
               /\ can_start_session(controller, today, now)[2] # "None"
    /\ ~controller.enabled => can_start_session(controller, today, now) = Allowed
\* enabled, inside the usage window, the last minutes used up by add_used_time
C3_Witness ==
    /\ op = "add_used_time"
    /\ controller.enabled
    /\ is_within_usage_times(controller, today, now)[1]
    /\ controller.usage_times_mode = "weekly"
    /\ get_remaining_minutes_for_day(controller, today) <= 0
    /\ ~can_start_session(controller, today, now)[1]

\* C4 as stated: whenever the time of day lies outside the configured usage
\* window, can_start_session() denies, for every usage_times_mode and every
\* remaining allowance (screen time being enabled).
C4_DeniedOutsideWindow ==
    (controller.enabled /\ OutsideWindow(ConfiguredWindow(today), now))
        => ~can_start_session(controller, today, now)[1]
\* C4 as amended: when screen time is enabled and usage_times_mode is weekly,
\* a time of day outside the weekday's weekly_usage_times window (00:00 - 23:59
\* without an entry) is denied for every remaining allowance; in every other
\* mode, and with screen time disabled, no time of day is outside the usage
\* times and daily_usage_times is not consulted.
C4_DeniedOutsideWeeklyWindow ==
    /\ (controller.enabled /\ controller.usage_times_mode = "weekly"
            /\ OutsideWindow(ConfiguredWindow(today), now))
        => /\ ~can_start_session(controller, today, now)[1]
           /\ can_start_session(controller, today, now)[2] # "None"
    /\ (~controller.enabled \/ controller.usage_times_mode # "weekly")
        => is_within_usage_times(controller, today, now) = Allowed
\* enabled, weekly mode, the clock has left the window, with minutes remaining
C4_Witness ==
    /\ op = "clock"
    /\ controller.enabled
    /\ controller.usage_times_mode = "weekly"
    /\ OutsideWindow(ConfiguredWindow(today), now)
    /\ get_remaining_minutes_for_day(controller, today) > 0
    /\ ~can_start_session(controller, today, now)[1]

\* C2: on one calendar day the session timer counts no more than the day's
\* allowance plus its credits plus the minutes added by the add-time quick
\* action.
C2_CountedWithinAllowance ==
    counting =>
        counted <= (get_allowed_minutes_for_day(controller, today)
                    + credits(today) + added) * 60



\* C5: with screen time enabled and a usage window configured, the session
\* timer runs with the screen unlocked only at times inside the window.
C5_InUseOnlyInsideWindow ==
    (/\ controller.enabled
     /\ manager.enabled
     /\ controller.usage_times_mode = "weekly"
     /\ timer_active
     /\ ~is_locked)
        => ~OutsideWindow(ConfiguredWindow(today), now)

\* C6: the tick handler that finds limit_minutes * 60 - elapsed_seconds <= 0
\* stops the timer and locks the screen (after the reminder dialog, should the
\* same tick show one), and while the screen is locked no tick is counted.
C6_ExpiryLocks ==
    /\ [][(op' = "tick" /\ limit_minutes' * 60 - elapsed_seconds' <= 0)
            => \/ is_locked' /\ ~timer_active' /\ dialog' = "lock"
               \/ dialog' = "reminder" /\ is_paused']_vars
    /\ [][(dialog = "reminder" /\ dialog' # "reminder"
            /\ limit_minutes * 60 - elapsed_seconds <= 0)
            => is_locked' /\ ~timer_active' /\ dialog' = "lock"]_vars
    /\ [][(is_locked /\ is_locked')
            => /\ elapsed_seconds' = elapsed_seconds
               /\ op' # "tick"
               /\ ~timer_active']_vars
\* an expiry tick has locked the screen
C6_Witness ==
    /\ op = "tick"
    /\ is_locked
    /\ ~timer_active
    /\ elapsed_seconds = limit_minutes * 60
    /\ elapsed_seconds > 0

\* C7: is_locked goes from true to false only in the step in which the PIN
\* entered in the lock dialog equals the configured pin_code; a wrong PIN or
\* a dismissed lock dialog leaves is_locked true and the timer stopped.
C7_UnlockOnlyByPin ==
    /\ [][(is_locked /\ ~is_locked')
            => op' = "unlock" /\ entered' = manager.pin_code]_vars
    /\ [][(op' \in {"wrong_pin", "lock_dismissed"})
            => is_locked' /\ ~timer_active' /\ dialog' = "lock"]_vars
    /\ [][(op' = "wrong_pin") => entered' # manager.pin_code]_vars
\* the lock was left with the configured PIN
C7_Witness ==
    /\ op = "unlock"
    /\ ~is_locked
    /\ entered = manager.pin_code

\* can_start_session() as the claims read it
InsideUsageTimes ==
    \/ controller.usage_times_mode # "weekly"
    \/ ~OutsideWindow(ConfiguredWindow(today), now)
SessionAllowed ==
    \/ ~controller.enabled
    \/ /\ InsideUsageTimes
       /\ get_allowed_minutes_for_day(controller, today)
            + credits(today) - used(today) > 0

\* C8 as stated: after the correct PIN is entered in the lock dialog,
\* is_locked is false, the timer is active and elapsed_seconds is 0.
C8_UnlockRestarts ==
    [][(op' = "unlock")
        => ~is_locked' /\ timer_active' /\ elapsed_seconds' = 0]_vars
\* C8 as amended: after the correct PIN, is_locked is false; the timer is
\* active again, with elapsed_seconds 0, exactly when the manager is enabled
\* and can_start_session() allows a session at that moment; otherwise the
\* manager is left unlocked with the timer stopped.
C8_UnlockRestartsIfAllowed ==
    [][(op' = "unlock")
        => /\ ~is_locked'
           /\ timer_active' <=> (manager.enabled /\ SessionAllowed)
           /\ timer_active' => elapsed_seconds' = 0]_vars
\* the correct PIN was entered after the usage window ended: unlocked, no timer
C8_Witness ==
    /\ op = "unlock"
    /\ manager.enabled
    /\ ~is_locked
    /\ ~timer_active

C12_CreditAddsExactly ==
    [][(op' = "credit_time_for_day")
        => \E m \in CreditMinutes, d \in Days :
            LET data == controller.screentime_data
                after == controller'.screentime_data
            IN  /\ isoformat(d) \in DOMAIN after
                /\ after[isoformat(d)].credits = credits(d) + m
                /\ after[isoformat(d)].used_minutes = used(d)
                /\ DOMAIN after = DOMAIN data \cup {isoformat(d)}
                /\ \A k \in DOMAIN data \ {isoformat(d)} : after[k] = data[k]
                /\ get_allowed_minutes_for_day(controller', d)
                     + after[isoformat(d)].credits
                   = get_allowed_minutes_for_day(controller, d) + credits(d) + m]_vars
\* minutes were credited to a date that had credits, in a mode other than daily
C12_Witness ==
    /\ op = "credit_time_for_day"
    /\ controller.allowed_time_mode = "weekly"
    /\ credits(0) = 3
    /\ used(0) = 1


\* C13: the allowed minutes of a date follow the mode: daily_allowed_minutes
\* in the daily mode, the weekly table's entry for the date's weekday (30 for
\* a weekday without an entry) in the weekly mode, daily_allowed_minutes in
\* the calendar mode, and 30 for every other mode value.
C13_AllowedByMode ==
    \A d \in Days :
        LET mode == controller.allowed_time_mode
            name == weekday_names[weekday(d) + 1]
            table == controller.weekly_allowed_minutes
            allowed == get_allowed_minutes_for_day(controller, d)
        IN  /\ mode = "daily" => allowed = controller.daily_allowed_minutes
            /\ mode = "weekly" =>
                 allowed = IF name \in DOMAIN table THEN table[name] ELSE 30
            /\ mode = "calendar" => allowed = controller.daily_allowed_minutes
            /\ mode \notin {"daily", "weekly", "calendar"} => allowed = 30
\* the weekly mode read on a weekday with an entry and on one without
C13_Witness ==
    /\ controller.allowed_time_mode = "weekly"
    /\ "monday" \in DOMAIN controller.weekly_allowed_minutes
    /\ controller.daily_allowed_minutes = 2
    /\ today = 1
    /\ get_allowed_minutes_for_day(controller, 0) = 0
    /\ get_allowed_minutes_for_day(controller, today) = 30


\* C14: after a load from a settings file that is missing or unparsable the
\* controller has enabled = False, allowed_time_mode = 'daily' and
\* daily_allowed_minutes = 30, and the manager has enabled = False,
\* limit_minutes = 60, reminders = [30, 5] and pin_code = '1234'; after a
\* load from a usage file that is missing or unparsable the usage mapping is
\* empty, used and credits being 0 for every date.
C14_DefaultsAfterFailedLoad ==
    /\ (op \in {"init", "restart"} /\ ~Parses(settings)) =>
          /\ controller.enabled = FALSE
          /\ controller.allowed_time_mode = "daily"
          /\ controller.daily_allowed_minutes = 30
    /\ (op \in {"init", "restart", "settings_changed"} /\ ~Parses(settings)) =>
          /\ manager.enabled = FALSE
          /\ manager.limit_minutes = 60
          /\ manager.reminders = <<30, 5>>
          /\ manager.pin_code = "1234"
    /\ (op \in {"init", "restart"} /\ ~Parses(disk_data)) =>
          /\ controller.screentime_data = NoData
          /\ \A d \in Days : used(d) = 0 /\ credits(d) = 0
\* the application was launched again without a settings file and with an
\* unparsable usage file
C14_Witness ==
    /\ op = "restart"
    /\ settings = MissingFile
    /\ disk_data = UnparsableFile
    /\ manager.limit_minutes = 60
    /\ ~manager.enabled
    /\ ~timer_active


\* C15: with a settings file that parses and holds a malformed usage window
\* for the weekday, is_within_usage_times and can_start_session raise no
\* exception, and is_within_usage_times returns what it returns for the
\* default window.
C15_MalformedWindowFallsBack ==
    LET within == is_within_usage_times(controller, today, now)
        default == is_within_usage_times(
                       [controller EXCEPT !.weekly_usage_times = NoTable],
                       today, now)
    IN  (DictGet(controller.weekly_usage_times,
                 weekday_names[weekday(today) + 1], DefaultWindow)
            \in MalformedWindows)
          => /\ ~Raises(within)
             /\ ~Raises(can_start_session(controller, today, now))
             /\ within = default


\* the minutes the first definition of stop() makes of the elapsed seconds
StoppedMinutes(seconds) ==
    (seconds \div 60) + (IF seconds % 60 >= 30 THEN 1 ELSE 0)

\* C16: whenever a running session with elapsed_seconds > 0 is stopped, by
\* cancellation or by expiry into the lock, today's used_minutes grows by
\* elapsed_seconds rounded to the nearest minute, 30 seconds rounding up.
C16_StopSavesUsedTime ==
    [][(/\ op' \in {"tick", "reminder_closed", "cancel_timer", "move_remaining"}
        /\ timer_active
        /\ ~timer_active'
        /\ elapsed_seconds' > 0)
        => used(today)' = used(today) + StoppedMinutes(elapsed_seconds')]_vars


\* C17: every start() that activates the timer, at the launch of the
\* application or after the PIN unlocked the screen, sets limit_minutes to the
\* minimum of its previous value and today's remaining minutes, sets
\* elapsed_seconds to 0 and clears the shown reminders; the countdown then is
\* at most today's remaining minutes.
C17_StartCapsLimit ==
    /\ [][(op' = "unlock" /\ timer_active')
            => /\ limit_minutes' =
                    Min(limit_minutes,
                        get_remaining_minutes_for_day(controller, today))
               /\ elapsed_seconds' = 0
               /\ manager'.shown_reminders = {}
               /\ get_remaining_time(manager')
                    <= 60 * get_remaining_minutes_for_day(controller', today)]_vars
    /\ [][(op' = "restart" /\ timer_active')
            => /\ limit_minutes' =
                    Min(DictGet(DictGet(settings, "screentime", NoTable),
                                "limit_minutes", 60),
                        get_remaining_minutes_for_day(controller', today))
               /\ elapsed_seconds' = 0
               /\ manager'.shown_reminders = {}
               /\ get_remaining_time(manager')
                    <= 60 * get_remaining_minutes_for_day(controller', today)]_vars
\* a launch whose start() cut the configured limit down to today's remainder
C17_Witness ==
    /\ op = "restart"
    /\ timer_active
    /\ elapsed_seconds = 0
    /\ limit_minutes = get_remaining_minutes_for_day(controller, today)
    /\ limit_minutes < DictGet(DictGet(settings, "screentime", NoTable),
                               "limit_minutes", 60)


C19_SettingsNeedPin ==
    (pin_enabled(settings) /\ settings_view.shown)
        => ~(settings_view.authenticated /\ settings_view.ui_built)


C21_AddTimeAddsExactly ==
    [][(op' = "add_time")
        => \E m \in AddTimeButtons :
              get_remaining_time(manager') = get_remaining_time(manager) + m * 60]_vars


\* C22: every pause made for a dialog is matched by a resume when the dialog
\* flow has ended with the timer still active: in no state is the timer
\* active and is_paused true while no dialog is open.
C22_NoPauseWithoutDialog ==
    ~(timer_active /\ is_paused /\ dialog = "none")


\* C23 as stated: a tick shows a reminder only with elapsed_seconds >= 5 and
\* for the configured value that equals the whole minutes remaining, and
\* never for a value already shown since the timer was started.
C23_ReminderOncePerSession ==
    [][(op' = "tick" /\ dialog' = "reminder")
        => LET v == tick_remaining_seconds' \div 60 IN
           /\ elapsed_seconds' >= 5
           /\ \E i \in 1 .. Len(manager.reminders) : manager.reminders[i] = v
           /\ v \notin reminded.session]_vars
\* C23 as amended: the same, with "already shown since shown_reminders was
\* last emptied": by the start() that activated the timer or by a reload of
\* the settings, which a save in the settings view causes during a session.
C23_ReminderOncePerClearing ==
    [][(op' = "tick" /\ dialog' = "reminder")
        => LET v == tick_remaining_seconds' \div 60 IN
           /\ elapsed_seconds' >= 5
           /\ \E i \in 1 .. Len(manager.reminders) : manager.reminders[i] = v
           /\ v \notin reminded.since_clear]_vars
\* a reminder value is shown a second time in a session, after a settings save
C23_Witness ==
    /\ op = "tick"
    /\ dialog = "reminder"
    /\ reminded.again
    /\ saves > 0


WindowNamed(window) ==
    "(" \o TimeText(window.start) \o " - " \o TimeText(window.end) \o ")"
\* C24: with screen time enabled and usage_times_mode 'weekly',
\* is_within_usage_times(t) returns (True, None) exactly when the time of day
\* of t lies between the start and the end of the window of t's weekday, both
\* bounds included, and otherwise (False, reason) with a reason that names
\* that window.
C24_WeeklyWindowInclusive ==
    (controller.enabled /\ controller.usage_times_mode = "weekly")
        => \A d \in Days, t \in ClockPoints :
              LET window == ConfiguredWindow(d)
                  start_time == HMS(window.start[1], window.start[2], 0)
                  end_time == HMS(window.end[1], window.end[2], 0)
              IN  is_within_usage_times(controller, d, t)
                    = IF start_time <= t /\ t <= end_time
                      THEN <<TRUE, "None">>
                      ELSE <<FALSE, "Außerhalb der erlaubten Nutzungszeit "
                                        \o WindowNamed(window)>>
\* on a Monday with the afternoon window the clock stands on the window's end,
\* the call allows; one second before the start it denies
C24_Witness ==
    /\ controller.enabled
    /\ controller.usage_times_mode = "weekly"
    /\ op = "clock"
    /\ weekday(today) = 0
    /\ ConfiguredWindow(today) = AfternoonWindow
    /\ now = HMS(14, 1, 0)
    /\ is_within_usage_times(controller, today, now)[1]
    /\ ~is_within_usage_times(controller, today, HMS(13, 59, 59))[1]

====
